---- MODULE Spec2Model ----
(***************************************************************************)
(* Parallel multiway mergesort (tlx/sort/parallel_mergesort.hpp).          *)
(*                                                                         *)
(* One call of parallel_mergesort<Stable>(begin, end, comp, num_threads)   *)
(* is modelled as a state machine: the calling thread runs the prologue    *)
(* (early return, clamp, shared-data construction, partitioning), then a   *)
(* team of num_threads workers runs parallel_sort_mwms_pu, each worker     *)
(* stepping from one phase to the next, synchronised by the omp barriers.  *)
(*                                                                         *)
(* An element is a number key * TagBase + tag: the comparator looks at the  *)
(* key only, the tag is the element's position in the input and makes      *)
(* equal-key elements distinguishable.  Arrays are sequences; an index i of *)
(* the code (0-based) is position i + 1 of the sequence.                   *)
(***************************************************************************)
EXTENDS Integers, Sequences, FiniteSets

\* ------------------------------------------------------------------ bounds
\* longest input sequence
MaxN == 3
\* keys are 1..MaxKey
MaxKey == 2

\* size_t sort_mwms_oversampling = 10;
sort_mwms_oversampling == 10

\* size_t arithmetic is modular; TLC integers are 32 bit wide, so the modulus
\* of size_t (2^64) is represented by the largest power of two TLC can hold.
SizeModulus == 2^30
\* sizeof(DiffType), the element type of sd.starts and sd.offsets
SizeofDiffType == 8

VARIABLES
    input,          \* the sequence [begin, end) at call entry (never changes)
    source,         \* sd.source: the caller's sequence as it is now
    req_threads,    \* the argument num_threads as passed by the caller
    num_threads,    \* the parameter num_threads as the callee holds it
    Stable,         \* template parameter Stable
    COPY_LAST,      \* STXXL_MULTIWAY_MERGESORT_COPY_LAST (build-time strategy)
    mwmsa,          \* MultiwayMergeSplittingAlgorithm mwmsa (see below)
    pc_main,        \* position of the calling thread
    sd_live,        \* the PMWMSSortingData object exists
    starts,         \* sd.starts
    temporary,      \* contents of the buffer sd.temporary[i] points at
    temp_state,     \* "unallocated", "live", "released" or "invalid_release"
    samples,        \* sd.samples
    pieces,         \* sd.pieces[thread][sequence]
    pc,             \* position of each worker of the team
    single_done,    \* the omp single construct has been executed
    offset,         \* local offset of each worker
    length_am,      \* local length_am of each worker
    rd,             \* history: locations each worker has read since the
                    \*          last barrier
    wr,             \* history: locations each worker has written since the
                    \*          last barrier
    sample_sorts,   \* history: executions of the sort of sd.samples
    alloc_count,    \* history: buffers each worker has allocated
    release_count   \* history: delete expressions each worker has executed

vars == <<input, source, req_threads, num_threads, Stable, COPY_LAST, mwmsa,
          pc_main, sd_live, starts, temporary, temp_state, samples, pieces,
          pc, single_done, offset, length_am, rd, wr, sample_sorts,
          alloc_count, release_count>>

\* mwmsa is set to MWMSA_SAMPLING at lines 170 and 313; the branch for
\* MWMSA_EXACT (lines 210-245) is modelled as written, for the setting that
\* selects it.  COPY_LAST is the preprocessor switch of lines 70, 149, 255, 275.

\* ------------------------------------------------------------- value types
Keys == 1 .. MaxKey
TagBase == MaxN + 1
Elem(key, tag) == key * TagBase + tag
KeyOf(e) == e \div TagBase
TagOf(e) == e % TagBase
Element == { Elem(key, tag) : key \in Keys, tag \in 1 .. MaxN }
\* what may lie in memory one past the end of the sequence
PastEnd == { Elem(key, 0) : key \in 1 .. (MaxKey + 1) }
\* a slot that has been allocated and not written
Unwritten == Elem(0, 0)

n == Len(input)
Workers == 0 .. (num_threads - 1)

\* the comparator: a strict weak ordering on the keys
comp(a, b) == KeyOf(a) < KeyOf(b)

Min(a, b) == IF a < b THEN a ELSE b

RECURSIVE Sum(_, _)
Sum(f, S) == IF S = {} THEN 0
             ELSE LET x == CHOOSE x \in S : TRUE IN f[x] + Sum(f, S \ {x})

IsSorted(s) == \A k \in 1 .. (Len(s) - 1) : ~comp(s[k + 1], s[k])

Arrangements(s) ==
    { [k \in 1 .. Len(s) |-> s[f[k]]] :
        f \in { g \in [1 .. Len(s) -> 1 .. Len(s)] :
                  \A a, b \in 1 .. Len(s) : a # b => g[a] # g[b] } }

\* ------------------------------------------------------ library primitives
\* std::stable_sort: insertion of each element after the ones not greater
StableInsert(s, x) ==
    LET k == Cardinality({ i \in 1 .. Len(s) : ~comp(x, s[i]) })
    IN  SubSeq(s, 1, k) \o <<x>> \o SubSeq(s, k + 1, Len(s))

RECURSIVE stable_sort(_)
stable_sort(s) ==
    IF s = <<>> THEN <<>>
    ELSE StableInsert(stable_sort(SubSeq(s, 1, Len(s) - 1)), s[Len(s)])

\* std::sort: any ordered arrangement of the elements
std_sort(s) == { t \in Arrangements(s) : IsSorted(t) }

\* std::lower_bound over [0, Len(s)): binary search, result as an offset
RECURSIVE lower_bound_from(_, _, _, _)
lower_bound_from(s, x, first, count) ==
    IF count <= 0 THEN first
    ELSE LET step == count \div 2
             mid == first + step
         IN  IF comp(s[mid + 1], x)
             THEN lower_bound_from(s, x, mid + 1, count - step - 1)
             ELSE lower_bound_from(s, x, first, step)

lower_bound(s, x) == lower_bound_from(s, x, 0, Len(s))

\* equally_split(n, p, s): p + 1 offsets, the first n % p parts one longer
equally_split(len, p) ==
    [i \in 0 .. p |-> i * (len \div p) + Min(i, len % p)]

\* the sequences whose head no other head is ordered before
MinHeads(seqs) ==
    LET ne == { s \in DOMAIN seqs : seqs[s] # <<>> }
    IN  { s \in ne : \A t \in ne : ~comp(Head(seqs[t]), Head(seqs[s])) }

LowestOf(S) == CHOOSE s \in S : \A t \in S : s <= t

\* multiway_merge_base<Stable, false>: the possible merged outputs of length
\* len; the stable kernel takes equal heads from the lowest sequence first
RECURSIVE multiway_merge_base(_, _, _)
multiway_merge_base(stable, seqs, len) ==
    IF len <= 0 \/ MinHeads(seqs) = {} THEN { <<>> }
    ELSE LET picks == IF stable THEN { LowestOf(MinHeads(seqs)) }
                      ELSE MinHeads(seqs)
         IN  UNION { { <<Head(seqs[s])>> \o r :
                         r \in multiway_merge_base(
                                  stable, [seqs EXCEPT ![s] = Tail(@)], len - 1) } :
                     s \in picks }

\* multisequence_partition: split the sequences at global rank `rank`; equal
\* elements across the split are taken from the lower sequence first
RECURSIVE multisequence_partition_from(_, _, _)
multisequence_partition_from(seqs, rank, offs) ==
    LET rest == [s \in DOMAIN seqs |-> SubSeq(seqs[s], offs[s] + 1, Len(seqs[s]))]
    IN  IF rank <= 0 \/ MinHeads(rest) = {} THEN offs
        ELSE LET s == LowestOf(MinHeads(rest))
             IN  multisequence_partition_from(
                     seqs, rank - 1, [offs EXCEPT ![s] = @ + 1])

multisequence_partition(seqs, rank) ==
    multisequence_partition_from(seqs, rank, [s \in DOMAIN seqs |-> 0])

\* --------------------------------------------------------- shared accessors
\* number of samples each worker contributes (determine_samples)
NumSamples == sort_mwms_oversampling * num_threads - 1

\* the source sub-range [starts[s], starts[s + 1])
Chunk(s) == SubSeq(source, starts[s] + 1, starts[s + 1])

\* the range sd.sorting_places[s] points at, of length starts[s+1] - starts[s]
sorting_places(s) == IF COPY_LAST THEN Chunk(s) ELSE temporary[s]

\* seq with data stored at offsets off, off + 1, ...
WriteAt(seq, off, data) ==
    [k \in 1 .. Len(seq) |->
        IF k > off /\ k <= off + Len(data) THEN data[k - off] ELSE seq[k]]

\* the values a read of source[idx] by worker w can yield: one past the end
\* the memory holds anything; inside the chunk of a worker that is still
\* sorting in place the read races with the sort
SourceReads(w, idx) ==
    IF idx >= n THEN PastEnd
    ELSE IF COPY_LAST /\ \E v \in Workers \ {w} :
                 pc[v] = "sort" /\ starts[v] <= idx /\ idx < starts[v + 1]
    THEN LET v == CHOOSE v \in Workers \ {w} :
                      pc[v] = "sort" /\ starts[v] <= idx /\ idx < starts[v + 1]
         IN  { source[k] : k \in (starts[v] + 1) .. starts[v + 1] }
    ELSE { source[idx + 1] }

\* the memory locations the workers share: an element of the source, the
\* buffer sd->temporary[w] (sort buffer or merge buffer), the slot range of
\* sd->samples that worker w fills, the begin and the end fields of the row
\* sd->pieces[w]
SourceAt(i) == <<"source", i>>
TemporaryOf(w) == <<"temporary", w>>
SampleSlot(k) == <<"samples", k \div NumSamples>>
PiecesBegin(w) == <<"pieces_begin", w>>
PiecesEnd(w) == <<"pieces_end", w>>
SourceRange(lo, hi) == { SourceAt(i) : i \in lo .. (hi - 1) }

\* the locations of the range sd.sorting_places[s]
SortingPlace(s) ==
    IF COPY_LAST THEN SourceRange(starts[s], starts[s + 1])
    ELSE { TemporaryOf(s) }
AllSortingPlaces == UNION { SortingPlace(s) : s \in Workers }

\* worker w reads the locations R and writes the locations W
Log(w, R, W) ==
    /\ rd' = [rd EXCEPT ![w] = @ \cup R]
    /\ wr' = [wr EXCEPT ![w] = @ \cup W]

\* the positions of a worker in parallel_sort_mwms_pu
Positions ==
    {"sort", "sample", "barrier177", "single", "single_end", "barrier182",
     "split", "exact_barrier1", "exact_end", "exact_barrier2", "exact_begin",
     "merge", "barrier273", "writeback", "done", "aborted"}

\* the shape of the state: PMWMSSortingData, PMWMSSorterPU and the locals
TypeOK ==
    /\ input \in Seq(Element) /\ Len(source) = Len(input)
    /\ \A k \in 1 .. Len(source) : source[k] \in Element
    /\ req_threads \in Nat /\ num_threads \in Nat
    /\ Stable \in BOOLEAN /\ COPY_LAST \in BOOLEAN /\ single_done \in BOOLEAN
    /\ mwmsa \in {"MWMSA_SAMPLING", "MWMSA_EXACT"}
    /\ pc_main \in {"entry", "construct", "failed", "partition", "fork",
                     "parallel", "returned", "aborted"}
    /\ sd_live \in BOOLEAN
    /\ sd_live =>
          /\ DOMAIN starts = 0 .. num_threads
          /\ \A i \in DOMAIN starts : starts[i] \in 0 .. n
          /\ DOMAIN temporary = Workers /\ DOMAIN temp_state = Workers
          /\ \A w \in Workers :
                /\ temp_state[w] \in {"unallocated", "live", "released",
                                     "invalid_release"}
                /\ \A k \in 1 .. Len(temporary[w]) : temporary[w][k] \in Element
          /\ \A k \in 1 .. Len(samples) :
                samples[k] \in Element \cup PastEnd \cup {Unwritten}
          /\ \A w \in Workers : \A s \in Workers :
                /\ pieces[w][s].begin \in 0 .. n
                /\ pieces[w][s].end \in 0 .. n
    /\ pc_main = "parallel" =>
          /\ \A w \in Workers : pc[w] \in Positions
          /\ \A w \in Workers : offset[w] \in 0 .. n /\ length_am[w] \in 0 .. n
          /\ \A w \in Workers : alloc_count[w] \in Nat /\ release_count[w] \in Nat
    /\ sample_sorts \in Nat

\* ------------------------------------------------------------------- Init
Init ==
    /\ \E len \in 0 .. MaxN : \E keys \in [1 .. len -> Keys] :
           input = [k \in 1 .. len |-> Elem(keys[k], k)]
    /\ source = input
    /\ req_threads \in 0 .. MaxN
    /\ num_threads = req_threads
    /\ Stable \in BOOLEAN
    /\ COPY_LAST \in BOOLEAN
    /\ mwmsa \in {"MWMSA_SAMPLING", "MWMSA_EXACT"}
    /\ pc_main = "entry"
    /\ sd_live = FALSE
    /\ starts = <<>>
    /\ temporary = <<>>
    /\ temp_state = <<>>
    /\ samples = <<>>
    /\ pieces = <<>>
    /\ pc = <<>>
    /\ single_done = FALSE
    /\ offset = <<>>
    /\ length_am = <<>>
    /\ rd = <<>>
    /\ wr = <<>>
    /\ sample_sorts = 0
    /\ alloc_count = <<>>
    /\ release_count = <<>>

\* ------------------------------------------------- parallel_mergesort (main)
\* the guard of the early return: if (n <= 1)
TrivialInput_Empty == n < 1
TrivialInput == n <= 1

\* if (n <= 1) return;
ReturnTrivial ==
    /\ pc_main = "entry"
    /\ TrivialInput
    /\ pc_main' = "returned"
    /\ UNCHANGED <<input, source, req_threads, num_threads, Stable, COPY_LAST,
                   mwmsa, sd_live, starts, temporary, temp_state, samples,
                   pieces, pc, single_done, offset, length_am,
                   rd, wr, sample_sorts, alloc_count, release_count>>

\* mutant of ClampedThreads: the requested count is used as it is
ClampedThreads_Unclamped == num_threads

\* the value of num_threads after "at least one element per thread"
ClampedThreads == IF num_threads > n THEN n ELSE num_threads

ClampThreads ==
    /\ pc_main = "entry"
    /\ ~TrivialInput
    /\ num_threads' = ClampedThreads
    /\ pc_main' = "construct"
    /\ UNCHANGED <<input, source, req_threads, Stable, COPY_LAST, mwmsa,
                   sd_live, starts, temporary, temp_state, samples, pieces,
                   pc, single_done, offset, length_am,
                   rd, wr, sample_sorts, alloc_count, release_count>>

\* the size PMWMSSortingData gives sd.offsets: num_threads - 1 in size_t
OffsetsSize == (num_threads - 1) % SizeModulus

\* an array of OffsetsSize elements whose byte count size_t cannot hold
OffsetsTooLarge == OffsetsSize > SizeModulus \div SizeofDiffType

\* PMWMSSortingData sd(num_threads) throws: the array new of sd.offsets fails
ConstructFails ==
    /\ pc_main = "construct"
    /\ OffsetsTooLarge
    /\ pc_main' = "failed"
    /\ UNCHANGED <<input, source, req_threads, num_threads, Stable, COPY_LAST,
                   mwmsa, sd_live, starts, temporary, temp_state, samples,
                   pieces, pc, single_done, offset, length_am,
                   rd, wr, sample_sorts, alloc_count, release_count>>

\* PMWMSSortingData sd(num_threads); sd.samples.resize; sd.pieces[s].resize
Construct ==
    /\ pc_main = "construct"
    /\ ~OffsetsTooLarge
    /\ sd_live' = TRUE
    /\ starts' = [i \in 0 .. num_threads |-> 0]
    /\ temporary' = [w \in Workers |-> <<>>]
    /\ temp_state' = [w \in Workers |-> "unallocated"]
    /\ samples' = IF mwmsa = "MWMSA_SAMPLING"
                  THEN [k \in 1 .. (num_threads * NumSamples) |-> Unwritten]
                  ELSE <<>>
    /\ pieces' = [w \in Workers |-> [s \in Workers |-> [begin |-> 0, end |-> 0]]]
    /\ pc_main' = "partition"
    /\ UNCHANGED <<input, source, req_threads, num_threads, Stable, COPY_LAST,
                   mwmsa, pc, single_done, offset, length_am,
                   rd, wr, sample_sorts, alloc_count, release_count>>

\* mutant of PartitionStarts: the remainder n % p is dropped
PartitionStarts_NoRemainder(len, p) == [i \in 0 .. p |-> i * (len \div p)]

\* mutant of PartitionStarts: the last n % p chunks are the longer ones
PartitionStarts_RemainderLast(len, p) ==
    [i \in 0 .. p |->
        i * (len \div p)
          + (IF i > p - (len % p) THEN i - (p - (len % p)) ELSE 0)]

\* the loop of lines 325-335: starts[i] is the running sum of the lengths
PartitionStarts(len, p) ==
    LET chunk_length == len \div p
        split == len % p
    IN  [i \in 0 .. p |->
            Sum([j \in 0 .. (p - 1) |->
                    IF j < split THEN chunk_length + 1 ELSE chunk_length],
                0 .. (i - 1))]

Partition ==
    /\ pc_main = "partition"
    /\ starts' = PartitionStarts(n, num_threads)
    /\ pc_main' = "fork"
    /\ UNCHANGED <<input, source, req_threads, num_threads, Stable, COPY_LAST,
                   mwmsa, sd_live, temporary, temp_state, samples, pieces, pc,
                   single_done, offset, length_am,
                   rd, wr, sample_sorts, alloc_count, release_count>>

\* #pragma omp parallel num_threads(num_threads): worker i runs pus[i]; the
\* runtime is taken to grant the full team of num_threads threads
Fork ==
    /\ pc_main = "fork"
    /\ pc' = [w \in Workers |-> "sort"]
    /\ offset' = [w \in Workers |-> 0]
    /\ length_am' = [w \in Workers |-> 0]
    /\ pc_main' = "parallel"
    /\ rd' = [w \in Workers |-> {}]
    /\ wr' = [w \in Workers |-> {}]
    /\ alloc_count' = [w \in Workers |-> 0]
    /\ release_count' = [w \in Workers |-> 0]
    /\ UNCHANGED <<input, source, req_threads, num_threads, Stable, COPY_LAST,
                   mwmsa, sd_live, starts, temporary, temp_state, samples,
                   pieces, single_done,
                   sample_sorts>>

\* end of the parallel region and of the call: sd is destroyed
Join ==
    /\ pc_main = "parallel"
    /\ \A w \in Workers : pc[w] = "done"
    /\ sd_live' = FALSE
    /\ pc_main' = "returned"
    /\ UNCHANGED <<input, source, req_threads, num_threads, Stable, COPY_LAST,
                   mwmsa, starts, temporary, temp_state, samples, pieces, pc,
                   single_done, offset, length_am,
                   rd, wr, sample_sorts, alloc_count, release_count>>

\* ------------------------------------------- parallel_sort_mwms_pu (worker)
\* mutants of LocalSort: the chunk is left as it is; std::sort whatever Stable
LocalSort_Skipped(chunk) == { chunk }
LocalSort_AlwaysUnstable(chunk) == std_sort(chunk)

\* the outcomes of the local sort of one chunk (lines 162-166)
LocalSort(chunk) == IF Stable THEN { stable_sort(chunk) } ELSE std_sort(chunk)

\* lines 147-166: the chunk is read, the sorting place is written
SortReads(w) == SourceRange(starts[w], starts[w + 1])
SortWrites(w) == SortingPlace(w)

\* lines 147-166: set up the sorting place and sort the chunk there
SortLocally(w) ==
    /\ pc_main = "parallel"
    /\ pc[w] = "sort"
    /\ \E sorted \in LocalSort(Chunk(w)) :
          IF COPY_LAST
          THEN /\ source' = WriteAt(source, starts[w], sorted)
               /\ UNCHANGED <<temporary, temp_state>>
          ELSE /\ temporary' = [temporary EXCEPT ![w] = sorted]
               /\ temp_state' = [temp_state EXCEPT ![w] = "live"]
               /\ UNCHANGED source
    /\ pc' = [pc EXCEPT ![w] = IF mwmsa = "MWMSA_SAMPLING"
                               THEN "sample" ELSE "exact_barrier1"]
    /\ Log(w, SortReads(w), SortWrites(w))
    /\ alloc_count' = [alloc_count EXCEPT ![w] = IF COPY_LAST THEN @ ELSE @ + 1]
    /\ UNCHANGED <<input, req_threads, num_threads, Stable, COPY_LAST, mwmsa,
                   pc_main, sd_live, starts, samples, pieces, single_done,
                   offset, length_am,
                   sample_sorts, release_count>>

\* the source indices determine_samples reads: sample i of worker w is read
\* at sd->starts[iam] + es[i + 1] (lines 122-127)
SampleIndices(w) ==
    LET es == equally_split(starts[w + 1] - starts[w], NumSamples + 1)
    IN  [i \in 0 .. (NumSamples - 1) |-> starts[w] + es[i + 1]]

\* line 127: sd->source is read at the sample indices, the samples are
\* stored at sd->samples[iam * num_samples + i]
SampleReads(w) == { SourceAt(SampleIndices(w)[i]) : i \in 0 .. (NumSamples - 1) }
SampleWrites(w) ==
    { SampleSlot(w * NumSamples + i) : i \in 0 .. (NumSamples - 1) }

\* determine_samples(d, num_samples), lines 115-128
DetermineSamples(w) ==
    /\ pc_main = "parallel"
    /\ pc[w] = "sample"
    /\ \E at \in { SampleIndices(w) } :
       \* the indices whose read is not settled by the current source
       \E open \in { { at[i] : i \in DOMAIN at } \ { idx \in 0 .. (n - 1) :
                          SourceReads(w, idx) = { source[idx + 1] } } } :
       \E mem \in [open -> Element \cup PastEnd] :
          /\ \A idx \in open : mem[idx] \in SourceReads(w, idx)
          /\ samples' =
                [k \in 1 .. Len(samples) |->
                    IF k > w * NumSamples /\ k <= (w + 1) * NumSamples
                    THEN IF at[k - 1 - w * NumSamples] \in open
                         THEN mem[at[k - 1 - w * NumSamples]]
                         ELSE source[at[k - 1 - w * NumSamples] + 1]
                    ELSE samples[k]]
    /\ pc' = [pc EXCEPT ![w] = "barrier177"]
    /\ Log(w, SampleReads(w), SampleWrites(w))
    /\ UNCHANGED <<input, source, req_threads, num_threads, Stable, COPY_LAST,
                   mwmsa, pc_main, sd_live, starts, temporary, temp_state,
                   pieces, single_done, offset, length_am,
                   sample_sorts, alloc_count, release_count>>

\* mutant of Barrier: a worker at `at` moves on without waiting for the team
Barrier_NoWait(at, to) ==
    /\ pc_main = "parallel"
    /\ \E w \in Workers : pc[w] = at /\ pc' = [pc EXCEPT ![w] = to]
    /\ UNCHANGED <<input, source, req_threads, num_threads, Stable, COPY_LAST,
                   mwmsa, pc_main, sd_live, starts, temporary, temp_state,
                   samples, pieces, single_done, offset, length_am, rd, wr,
                   sample_sorts, alloc_count, release_count>>

\* #pragma omp barrier: the whole team is at `at` and moves on to `to`
Barrier(at, to) ==
    /\ pc_main = "parallel"
    /\ \A w \in Workers : pc[w] = at
    /\ pc' = [w \in Workers |-> to]
    /\ rd' = [w \in Workers |-> {}]
    /\ wr' = [w \in Workers |-> {}]
    /\ UNCHANGED <<input, source, req_threads, num_threads, Stable, COPY_LAST,
                   mwmsa, pc_main, sd_live, starts, temporary, temp_state,
                   samples, pieces, single_done, offset, length_am,
                   sample_sorts, alloc_count, release_count>>

\* mutant of Barrier177: a worker enters the single construct on its own
Barrier177_NoWait == Barrier_NoWait("barrier177", "single")

\* line 177
Barrier177 == Barrier("barrier177", "single")

\* the elements of s in comp order, key by key from lowest to highest, the
\* elements of one key in the order they have in s
RECURSIVE KeyRuns(_, _)
KeyRuns(s, k) ==
    IF k > MaxKey + 1 THEN <<>>
    ELSE SelectSeq(s, LAMBDA e : KeyOf(e) = k) \o KeyRuns(s, k + 1)

\* std::sort(sd->samples.begin(), sd->samples.end(), comp).  The order the
\* sort leaves equivalent samples in is not observable: every later use of a
\* sample compares it by comp alone, so one ordered arrangement stands for all.
SortedSamples == KeyRuns(samples, 0)

\* line 180: the sort reads and writes the whole of sd->samples
AllSamples == { SampleSlot(k) : k \in 0 .. (Len(samples) - 1) }

\* #pragma omp single: the first worker to arrive sorts the samples
SingleSortSamples(w) ==
    /\ pc_main = "parallel"
    /\ pc[w] = "single"
    /\ ~single_done
    /\ samples' = SortedSamples
    /\ single_done' = TRUE
    /\ pc' = [pc EXCEPT ![w] = "single_end"]
    /\ Log(w, AllSamples, AllSamples)
    /\ sample_sorts' = sample_sorts + 1
    /\ UNCHANGED <<input, source, req_threads, num_threads, Stable, COPY_LAST,
                   mwmsa, pc_main, sd_live, starts, temporary, temp_state,
                   pieces, offset, length_am,
                   alloc_count, release_count>>

\* the other workers skip the single construct
SingleSkip(w) ==
    /\ pc_main = "parallel"
    /\ pc[w] = "single"
    /\ single_done
    /\ pc' = [pc EXCEPT ![w] = "single_end"]
    /\ UNCHANGED <<input, source, req_threads, num_threads, Stable, COPY_LAST,
                   mwmsa, pc_main, sd_live, starts, temporary, temp_state,
                   samples, pieces, single_done, offset, length_am,
                   rd, wr, sample_sorts, alloc_count, release_count>>

\* the implicit barrier closing the single construct
BarrierSingleEnd == Barrier("single_end", "barrier182")

\* line 182
Barrier182 == Barrier("barrier182", "split")

\* lines 187-196: begin of the piece of sequence s for worker w
SamplingBegin(w, s) ==
    IF NumSamples * w > 0
    THEN lower_bound(sorting_places(s), samples[NumSamples * w + 1])
    ELSE 0

\* mutant of SamplingEnd: the upper splitter is taken one sample too early
SamplingEnd_OffByOne(w, s) ==
    IF NumSamples * (w + 1) < NumSamples * num_threads
    THEN lower_bound(sorting_places(s), samples[NumSamples * (w + 1)])
    ELSE starts[s + 1] - starts[s]

\* lines 198-207: end of the piece of sequence s for worker w
SamplingEnd(w, s) ==
    IF NumSamples * (w + 1) < NumSamples * num_threads
    THEN lower_bound(sorting_places(s), samples[NumSamples * (w + 1) + 1])
    ELSE starts[s + 1] - starts[s]

\* lines 187-207: each lower_bound reads one splitter and searches the
\* sorting place of every worker
SplitSamplingReads(w) ==
    (IF NumSamples * w > 0
     THEN { SampleSlot(NumSamples * w) } \cup AllSortingPlaces ELSE {})
    \cup
    (IF NumSamples * (w + 1) < NumSamples * num_threads
     THEN { SampleSlot(NumSamples * (w + 1)) } \cup AllSortingPlaces ELSE {})

\* lines 184-208
SplitSampling(w) ==
    /\ pc_main = "parallel"
    /\ pc[w] = "split"
    /\ pieces' = [pieces EXCEPT ![w] =
                    [s \in Workers |-> [begin |-> SamplingBegin(w, s),
                                        end |-> SamplingEnd(w, s)]]]
    /\ pc' = [pc EXCEPT ![w] = "merge"]
    /\ Log(w, SplitSamplingReads(w), {PiecesBegin(w), PiecesEnd(w)})
    /\ UNCHANGED <<input, source, req_threads, num_threads, Stable, COPY_LAST,
                   mwmsa, pc_main, sd_live, starts, temporary, temp_state,
                   samples, single_done, offset, length_am,
                   sample_sorts, alloc_count, release_count>>

\* line 212
BarrierExact1 == Barrier("exact_barrier1", "exact_end")

\* mutant of ExactEnd: the rank asked for is the start of the worker's own
\* chunk instead of the start of the next one
ExactEnd_RankOwnStart(w, seq) ==
    IF w < num_threads - 1
    THEN multisequence_partition(
             [s \in Workers |-> sorting_places(s)], starts[w])[seq]
    ELSE starts[seq + 1] - starts[seq]

\* lines 227-231: end of the piece of sequence seq for worker w
ExactEnd(w, seq) ==
    IF w < num_threads - 1
    THEN multisequence_partition(
             [s \in Workers |-> sorting_places(s)], starts[w + 1])[seq]
    ELSE starts[seq + 1] - starts[seq]

\* lines 214-232: multisequence_partition reads every sorting place
SplitExactEndReads(w) ==
    IF w < num_threads - 1 THEN AllSortingPlaces ELSE {}

\* lines 214-232
SplitExactEnd(w) ==
    /\ pc_main = "parallel"
    /\ pc[w] = "exact_end"
    /\ pieces' = [pieces EXCEPT ![w] =
                    [seq \in Workers |-> [pieces[w][seq] EXCEPT
                                             !.end = ExactEnd(w, seq)]]]
    /\ pc' = [pc EXCEPT ![w] = "exact_barrier2"]
    /\ Log(w, SplitExactEndReads(w), {PiecesEnd(w)})
    /\ UNCHANGED <<input, source, req_threads, num_threads, Stable, COPY_LAST,
                   mwmsa, pc_main, sd_live, starts, temporary, temp_state,
                   samples, single_done, offset, length_am,
                   sample_sorts, alloc_count, release_count>>

\* line 234
BarrierExact2 == Barrier("exact_barrier2", "exact_begin")

\* lines 239-243: begin of the piece of sequence seq for worker w
ExactBegin(w, seq) == IF w > 0 THEN pieces[w - 1][seq].end ELSE 0

\* lines 239-243: the ends of the row of the worker before are read
SplitExactBeginReads(w) == IF w > 0 THEN { PiecesEnd(w - 1) } ELSE {}

\* lines 236-244
SplitExactBegin(w) ==
    /\ pc_main = "parallel"
    /\ pc[w] = "exact_begin"
    /\ pieces' = [pieces EXCEPT ![w] =
                    [seq \in Workers |-> [pieces[w][seq] EXCEPT
                                             !.begin = ExactBegin(w, seq)]]]
    /\ pc' = [pc EXCEPT ![w] = "merge"]
    /\ Log(w, SplitExactBeginReads(w), {PiecesBegin(w)})
    /\ UNCHANGED <<input, source, req_threads, num_threads, Stable, COPY_LAST,
                   mwmsa, pc_main, sd_live, starts, temporary, temp_state,
                   samples, single_done, offset, length_am,
                   sample_sorts, alloc_count, release_count>>

\* mutant of MergeOffset: the worker merges to the start of its own chunk
MergeOffset_ChunkStart(w) == starts[w]

\* lines 248-253: offset from target begin
MergeOffset(w) == Sum([s \in Workers |-> pieces[w][s].begin], Workers)

\* mutant of MergeLength: the length before merging is used
MergeLength_LengthLocal(w) == starts[w + 1] - starts[w]

\* lines 248-253: length after merging
MergeLength(w) ==
    Sum([s \in Workers |-> pieces[w][s].end - pieces[w][s].begin], Workers)

\* lines 264-269: the sub-ranges worker w merges
MergeSeqs(w) ==
    [s \in Workers |->
        SubSeq(sorting_places(s), pieces[w][s].begin + 1, pieces[w][s].end)]

\* lines 248-271: the worker reads its own row of pieces and its slice of
\* every sorting place, and writes its merging place
MergeReads(w) ==
    { PiecesBegin(w), PiecesEnd(w) } \cup
    UNION { IF COPY_LAST
            THEN SourceRange(starts[s] + pieces[w][s].begin,
                             starts[s] + pieces[w][s].end)
            ELSE IF pieces[w][s].end > pieces[w][s].begin
                 THEN { TemporaryOf(s) } ELSE {} : s \in Workers }
MergeWrites(w) ==
    IF COPY_LAST THEN { TemporaryOf(w) }
    ELSE SourceRange(MergeOffset(w), MergeOffset(w) + MergeLength(w))

\* lines 247-271: merge the pieces of worker w into its merging place
Merge(w) ==
    /\ pc_main = "parallel"
    /\ pc[w] = "merge"
    /\ offset' = [offset EXCEPT ![w] = MergeOffset(w)]
    /\ length_am' = [length_am EXCEPT ![w] = MergeLength(w)]
    /\ \E merged \in multiway_merge_base(Stable, MergeSeqs(w), MergeLength(w)) :
          IF COPY_LAST
          THEN /\ temporary' = [temporary EXCEPT ![w] = merged]
               /\ temp_state' = [temp_state EXCEPT ![w] = "live"]
               /\ UNCHANGED source
          ELSE /\ source' = WriteAt(source, MergeOffset(w), merged)
               /\ UNCHANGED <<temporary, temp_state>>
    /\ pc' = [pc EXCEPT ![w] = "barrier273"]
    /\ Log(w, MergeReads(w), MergeWrites(w))
    /\ alloc_count' = [alloc_count EXCEPT ![w] = IF COPY_LAST THEN @ + 1 ELSE @]
    /\ UNCHANGED <<input, req_threads, num_threads, Stable, COPY_LAST, mwmsa,
                   pc_main, sd_live, starts, samples, pieces, single_done,
                   sample_sorts, release_count>>

\* mutant of Barrier273: a worker goes on to the writeback on its own
Barrier273_NoWait == Barrier_NoWait("barrier273", "writeback")

\* line 273
Barrier273 == Barrier("barrier273", "writeback")

\* lines 275-280: the merge buffer is read and the output segment written
\* (COPY_LAST); the delete expression ends the life of the buffer
WriteBackReads(w) == IF COPY_LAST THEN { TemporaryOf(w) } ELSE {}
WriteBackWrites(w) ==
    { TemporaryOf(w) } \cup
    (IF COPY_LAST THEN SourceRange(offset[w], offset[w] + length_am[w]) ELSE {})

\* line 280, delete sd->temporary[iam]: what the delete expression can do.
\* The buffer of line 259 comes from an array new-expression and is given to
\* the non-array delete: the behaviour is undefined.  Either the allocator
\* takes the block back and the thread runs on, or it finds the pointer
\* invalid and stops the process.  The block of line 157 comes from
\* ::operator new, which the non-array delete hands back as it is.
DeleteOutcomes ==
    IF COPY_LAST THEN {"released", "abort"} ELSE {"released"}

\* lines 275-280: write back (COPY_LAST) and release the temporary
WriteBack(w) ==
    /\ pc_main = "parallel"
    /\ pc[w] = "writeback"
    /\ source' = IF COPY_LAST
                 THEN WriteAt(source, offset[w], temporary[w])
                 ELSE source
    /\ \E outcome \in DeleteOutcomes :
          /\ temp_state' = [temp_state EXCEPT ![w] =
                               IF outcome = "released" THEN "released"
                               ELSE "invalid_release"]
          /\ pc' = [pc EXCEPT ![w] =
                       IF outcome = "abort" THEN "aborted" ELSE "done"]
          /\ pc_main' = IF outcome = "abort" THEN "aborted" ELSE pc_main
    /\ Log(w, WriteBackReads(w), WriteBackWrites(w))
    /\ release_count' = [release_count EXCEPT ![w] = @ + 1]
    /\ UNCHANGED <<input, req_threads, num_threads, Stable, COPY_LAST, mwmsa,
                   sd_live, starts, temporary, samples, pieces, single_done,
                   offset, length_am, sample_sorts, alloc_count>>

\* ------------------------------------------------------------ specification
Next ==
    \/ ReturnTrivial
    \/ ClampThreads
    \/ ConstructFails
    \/ Construct
    \/ Partition
    \/ Fork
    \/ \E w \in Workers : SortLocally(w)
    \/ \E w \in Workers : DetermineSamples(w)
    \/ Barrier177
    \/ \E w \in Workers : SingleSortSamples(w)
    \/ \E w \in Workers : SingleSkip(w)
    \/ BarrierSingleEnd
    \/ Barrier182
    \/ \E w \in Workers : SplitSampling(w)
    \/ BarrierExact1
    \/ \E w \in Workers : SplitExactEnd(w)
    \/ BarrierExact2
    \/ \E w \in Workers : SplitExactBegin(w)
    \/ \E w \in Workers : Merge(w)
    \/ Barrier273
    \/ \E w \in Workers : WriteBack(w)
    \/ Join

Spec == Init /\ [][Next]_vars

\* ------------------------------------------------------------------ claims
Returned == pc_main = "returned"

Count(s, e) == Cardinality({ k \in 1 .. Len(s) : s[k] = e })

KeysOf(s) == [k \in 1 .. Len(s) |-> KeyOf(s[k])]

\* C1: when a call on a sequence of at least two elements returns, no
\* adjacent pair of the source is out of order under the comparator.
C1_OutputSorted ==
    (Returned /\ n >= 2) =>
        \A k \in 1 .. (n - 1) : ~comp(source[k + 1], source[k])

\* a call with a team of two or more on an unordered input has returned
C1_Witness ==
    /\ Returned
    /\ n >= 2
    /\ num_threads >= 2
    /\ ~IsSorted(input)

\* C2: when the call returns, every element occurs in the source as often as
\* it did in the input, and the length is the same.
C2_Permutation ==
    Returned =>
        /\ Len(source) = Len(input)
        /\ \A e \in Element : Count(source, e) = Count(input, e)

\* a team of two or more has moved elements and the call has returned
C2_Witness ==
    /\ Returned
    /\ num_threads >= 2
    /\ source # input

\* C3: with Stable, elements of equal key are in the source, when the call
\* returns, in the order they had in the input (increasing tag).
C3_Stable ==
    (Returned /\ Stable) =>
        \A i, j \in 1 .. Len(source) :
            (i < j /\ KeyOf(source[i]) = KeyOf(source[j])) =>
                TagOf(source[i]) < TagOf(source[j])

\* a stable call by a team split the input by sampling, the input held equal
\* keys in different chunks, and elements were moved
C3_Witness ==
    /\ Returned
    /\ Stable
    /\ mwmsa = "MWMSA_SAMPLING"
    /\ num_threads >= 2
    /\ source # input
    /\ \E i, j \in 1 .. n : i <= starts[1] /\ j > starts[1]
                            /\ KeyOf(input[i]) = KeyOf(input[j])

\* C4: the result does not depend on the thread count or the interleaving: it
\* is the input in sorted key order, and with Stable it is exactly the
\* sequence the stable sort of the whole input gives.
C4_ThreadCountInvariant ==
    (Returned /\ n >= 2) =>
        /\ KeysOf(source) = KeysOf(stable_sort(input))
        /\ Stable => source = stable_sort(input)

\* a call with fewer threads than elements, but more than one, has returned
C4_Witness ==
    /\ Returned
    /\ num_threads >= 2
    /\ num_threads < n
    /\ source # input

\* C5: on an input of at most one element the call only returns: the source
\* is untouched, no shared data or buffer exists, no worker was started.
C5_TrivialNoEffect ==
    n <= 1 =>
        /\ pc_main \in {"entry", "returned"}
        /\ source = input
        /\ ~sd_live
        /\ starts = <<>> /\ samples = <<>> /\ pieces = <<>>
        /\ temporary = <<>> /\ temp_state = <<>>
        /\ pc = <<>>

\* a call on one element with several threads requested has returned
C5_Witness ==
    /\ Returned
    /\ n = 1
    /\ req_threads >= 2

\* C6: a call that requests more threads than there are elements runs as the
\* call that requests n threads does: a team of n, starts[i] = i, shared data
\* sized for n workers, and the same final sequence.
C6_OverSubscription ==
    (req_threads > n /\ n >= 2 /\ pc_main # "entry") =>
        /\ num_threads = n
        /\ pc_main \in {"partition", "fork", "parallel", "returned"} =>
              /\ DOMAIN pieces = 0 .. (n - 1)
              /\ \A w \in DOMAIN pieces : DOMAIN pieces[w] = 0 .. (n - 1)
              /\ mwmsa = "MWMSA_SAMPLING" =>
                    Len(samples) = n * (sort_mwms_oversampling * n - 1)
        /\ pc_main \in {"fork", "parallel", "returned"} =>
              starts = [i \in 0 .. n |-> i]
        /\ pc_main \in {"parallel", "returned"} => DOMAIN pc = 0 .. (n - 1)
        /\ Returned =>
              /\ KeysOf(source) = KeysOf(stable_sort(input))
              /\ Stable => source = stable_sort(input)

\* a call requesting more threads than elements has sorted and returned
C6_Witness ==
    /\ Returned
    /\ n >= 2
    /\ req_threads > n
    /\ source # input

\* C7: once the call is past its early return (for n <= 1 no team size is
\* formed at all), the team size is min(T_req, n), every worker has at least
\* one element, and the team size is 0 only when n = 0, so that neither the
\* size num_threads - 1 nor the division n / num_threads is taken with 0.
C7_TeamSize ==
    (pc_main # "entry" /\ n >= 2) =>
        /\ num_threads = Min(req_threads, n)
        /\ num_threads = 0 => n = 0
        /\ pc_main \in {"fork", "parallel"} =>
              \A w \in Workers : starts[w + 1] - starts[w] >= 1

\* C8 (state part): after partitioning, starts runs from 0 to n, the first
\* n % T chunks have length n / T + 1 and the others n / T, and every index
\* of [0, n) lies in exactly one chunk.
C8_StartsShape ==
    (n >= 2 /\ pc_main \in {"fork", "parallel", "returned"}) =>
        /\ starts[0] = 0
        /\ starts[num_threads] = n
        /\ \A i \in Workers :
              /\ starts[i] <= starts[i + 1]
              /\ starts[i + 1] - starts[i] =
                    IF i < n % num_threads THEN n \div num_threads + 1
                    ELSE n \div num_threads
        /\ \A k \in 0 .. (n - 1) :
              Cardinality({ i \in Workers :
                              starts[i] <= k /\ k < starts[i + 1] }) = 1

\* C8: the partition has the shape above, and starts is never modified once
\* the team has started.
C8_StartsPartition ==
    /\ []C8_StartsShape
    /\ [][pc_main = "parallel" => starts' = starts]_vars

\* a team of two has uneven chunks and has finished
C8_Witness ==
    /\ Returned
    /\ n = 3
    /\ num_threads = 2

\* every worker has computed its whole row of pieces
AllSplit ==
    /\ n >= 2
    /\ pc_main \in {"parallel", "returned"}
    /\ \A w \in Workers : pc[w] \in {"merge", "barrier273", "writeback", "done"}

\* C9: once every worker has computed its row, the pieces of each chunk s
\* tile [0, length of chunk s): the first begins at 0, the last ends at the
\* chunk length, each ends where the next begins, none has negative length.
C9_PiecesTile ==
    AllSplit =>
        \A s \in Workers :
            /\ pieces[0][s].begin = 0
            /\ pieces[num_threads - 1][s].end = starts[s + 1] - starts[s]
            /\ \A i \in 0 .. (num_threads - 2) :
                  pieces[i][s].end = pieces[i + 1][s].begin
            /\ \A i \in Workers : pieces[i][s].begin <= pieces[i][s].end

\* sampling has cut a chunk strictly inside and left a worker without a
\* piece of some chunk
C9_Witness ==
    /\ AllSplit
    /\ mwmsa = "MWMSA_SAMPLING"
    /\ num_threads >= 2
    /\ \E i \in Workers, s \in Workers :
          /\ pieces[i][s].begin > 0
          /\ pieces[i][s].begin < starts[s + 1] - starts[s]
    /\ \E i \in Workers, s \in Workers : pieces[i][s].begin = pieces[i][s].end

\* worker w has computed offset and length_am
HasMerged(w) == pc[w] \in {"barrier273", "writeback", "done"}

\* C10: the output segments [offset, offset + length_am) of the workers
\* follow each other from 0 to n in worker order.
C10_OutputSegments ==
    (n >= 2 /\ pc_main \in {"parallel", "returned"}) =>
        /\ HasMerged(0) => offset[0] = 0
        /\ \A i \in 0 .. (num_threads - 2) :
              (HasMerged(i) /\ HasMerged(i + 1)) =>
                  offset[i] + length_am[i] = offset[i + 1]
        /\ HasMerged(num_threads - 1) =>
              offset[num_threads - 1] + length_am[num_threads - 1] = n
        /\ \A i \in Workers : HasMerged(i) => length_am[i] >= 0

\* every worker has merged, and sampling gave some worker an output segment
\* that is not as long as its chunk
C10_Witness ==
    /\ pc_main = "parallel"
    /\ num_threads >= 2
    /\ \A w \in Workers : HasMerged(w)
    /\ \E w \in Workers : length_am[w] # starts[w + 1] - starts[w]

\* C11: in exact splitting mode, with a rank selection whose offsets sum to
\* the rank asked for, every worker that has merged has an output length of
\* starts[i + 1] - starts[i] and an output offset of starts[i].
C11_ExactBalance ==
    (mwmsa = "MWMSA_EXACT" /\ n >= 2
        /\ pc_main \in {"parallel", "returned", "aborted"}) =>
        \A i \in Workers :
            HasMerged(i) =>
                /\ length_am[i] = starts[i + 1] - starts[i]
                /\ offset[i] = starts[i]

\* an exact-mode team of two or more has merged, and some worker merges
\* elements of a chunk that is not its own
C11_Witness ==
    /\ mwmsa = "MWMSA_EXACT"
    /\ pc_main = "parallel"
    /\ num_threads >= 2
    /\ \A i \in Workers : HasMerged(i)
    /\ \E i \in Workers : \E s \in Workers \ {i} :
          pieces[i][s].end > pieces[i][s].begin

\* C12: between two barriers no location (an element of the source, a
\* worker's buffer, a slot range of the samples, a row of pieces) is written
\* by one worker and read or written by another.
C12_NoConflictingAccess ==
    (n >= 2 /\ pc_main \in {"parallel", "returned", "aborted"}) =>
        \A w \in Workers : \A v \in Workers \ {w} :
            wr[w] \cap (rd[v] \cup wr[v]) = {}

\* C13: every worker allocates at most one buffer and executes at most one
\* release, a release follows an allocation and gives the buffer back to the
\* allocator in the form it was obtained in, and when the call has returned
\* every worker has allocated one buffer and released it.
C13_OneTemporary ==
    (n >= 2 /\ pc_main \in {"parallel", "returned", "aborted"}) =>
        \A w \in Workers :
            /\ alloc_count[w] <= 1
            /\ release_count[w] <= alloc_count[w]
            /\ temp_state[w] # "invalid_release"
            /\ Returned =>
                  /\ alloc_count[w] = 1
                  /\ release_count[w] = 1
                  /\ temp_state[w] = "released"

\* worker v has computed every entry of its row of pieces
RowComputed(v) == pc[v] \in {"merge", "barrier273", "writeback", "done"}

\* worker v has passed the barriers that precede the computation of begins
PastSort(v) ==
    pc[v] \in (IF mwmsa = "MWMSA_SAMPLING" THEN {"split"} ELSE {"exact_begin"})
               \cup {"merge", "barrier273", "writeback", "done"}

\* the row of worker w holds the results of the split
RowHolds(w) ==
    \A s \in Workers :
        IF mwmsa = "MWMSA_SAMPLING"
        THEN /\ pieces[w][s].begin = SamplingBegin(w, s)
             /\ pieces[w][s].end = SamplingEnd(w, s)
        ELSE /\ pieces[w][s].begin = ExactBegin(w, s)
             /\ pieces[w][s].end = ExactEnd(w, s)

\* C14 as stated: a worker has merged only when every worker has computed
\* every entry of its own row of pieces.
C14_BarrierBeforeMerge ==
    (n >= 2 /\ pc_main = "parallel") =>
        \A w \in Workers :
            HasMerged(w) => \A v \in Workers : RowComputed(v)

\* C14 amended: a worker that has merged and waits at the barrier of line
\* 273 holds the results of its own split in its row, and every worker has
\* passed the barriers before the computation of the begins (local sort
\* done, samples sorted or ends computed); the other rows may be unfinished.
C14_OwnRowBeforeMerge ==
    (n >= 2 /\ pc_main = "parallel") =>
        \A w \in Workers :
            pc[w] = "barrier273" =>
                /\ RowHolds(w)
                /\ \A v \in Workers : PastSort(v)

\* a worker has merged while another has not yet computed its row
C14_Witness ==
    /\ pc_main = "parallel"
    /\ \E w \in Workers : \E v \in Workers \ {w} :
          /\ pc[w] = "barrier273"
          /\ pc[v] \in {"split", "exact_begin"}
          /\ length_am[w] > 0

\* worker w has executed the writeback and the release of lines 275-280
Finishing(w) == pc[w] \in {"done", "aborted"} \/ release_count[w] > 0

\* C15: when a worker has written back or released its buffer, or the call
\* has returned, every worker has merged: it is past the merge of line 271
\* and its merging place holds length_am elements.
C15_MergeBeforeWriteback ==
    (n >= 2 /\ pc_main \in {"parallel", "returned", "aborted"}) =>
        ((Returned \/ \E w \in Workers : Finishing(w)) =>
            \A v \in Workers :
                /\ pc[v] \in {"writeback", "done", "aborted"}
                /\ COPY_LAST => Len(temporary[v]) = length_am[v])

\* in a team of two or more one worker has finished while another has yet
\* to begin its writeback
C15_Witness ==
    /\ pc_main = "parallel"
    /\ \E w \in Workers : \E v \in Workers \ {w} :
          /\ Finishing(w)
          /\ pc[v] = "writeback"
          /\ length_am[v] > 0

\* worker w has read its splitters from sd.samples (lines 189-206)
HasSplit(w) == pc[w] \in {"merge", "barrier273", "writeback", "done", "aborted"}

\* C16: in sampling mode the sample buffer has T * (V * T - 1) elements and
\* is sorted at most once; when it has been sorted every worker had written
\* all its samples; a worker with a read of a splitter before it or behind
\* it finds the buffer sorted; a call that returns has sorted it once.
C16_SamplesSortedOnce ==
    (n >= 2 /\ mwmsa = "MWMSA_SAMPLING"
        /\ pc_main \in {"parallel", "returned", "aborted"}) =>
        /\ Len(samples)
              = num_threads * (sort_mwms_oversampling * num_threads - 1)
        /\ sample_sorts <= 1
        /\ sample_sorts = 1 =>
              \A w \in Workers : pc[w] \notin {"sort", "sample", "barrier177"}
        /\ (\E w \in Workers : pc[w] = "single_end") =>
              \A k \in 1 .. Len(samples) : samples[k] # Unwritten
        /\ (\E w \in Workers : pc[w] = "split" \/ HasSplit(w)) =>
              sample_sorts = 1
        /\ (\E w \in Workers : pc[w] = "split") =>
              \A k \in 1 .. (Len(samples) - 1) :
                  ~comp(samples[k + 1], samples[k])
        /\ Returned => sample_sorts = 1

\* a sampling team of two or more whose samples were written out of order
\* has had them sorted, and a worker has read its splitters
C16_Witness ==
    /\ mwmsa = "MWMSA_SAMPLING"
    /\ pc_main = "parallel"
    /\ num_threads >= 2
    /\ sample_sorts = 1
    /\ \E w \in Workers : HasSplit(w)
    /\ \E k \in 1 .. (n - 1) : comp(input[k + 1], input[k])

\* sample k of worker w as determine_samples stored it (0-based k)
SampleOf(w, k) == samples[w * NumSamples + k + 1]

\* the position in the chunk of worker w at which sample k is taken
SamplePosition(w, k) == SampleIndices(w)[k] - starts[w]

\* the sample positions of worker w that lie inside its chunk
InteriorSamples(w) ==
    { k \in 0 .. (NumSamples - 1) :
        SamplePosition(w, k) < starts[w + 1] - starts[w] }

\* C17: in sampling mode, when a worker has stored its samples and they are
\* not yet sorted, each sample taken at a position inside the chunk has
\* the key of the element of the worker's sorted chunk at that position, and
\* these samples are in non-decreasing order.
C17_SamplesFromSortedChunk ==
    (n >= 2 /\ mwmsa = "MWMSA_SAMPLING" /\ pc_main = "parallel") =>
        \A w \in Workers :
            pc[w] = "barrier177" =>
                /\ \A k \in InteriorSamples(w) :
                      KeyOf(SampleOf(w, k))
                        = KeyOf(sorting_places(w)[SamplePosition(w, k) + 1])
                /\ \A k \in InteriorSamples(w) : \A l \in InteriorSamples(w) :
                      k < l => ~comp(SampleOf(w, l), SampleOf(w, k))

\* C18: a call with a team of one or more workers never comes to rest with
\* a worker short of the end: as long as no step is possible for any worker,
\* barrier or the calling thread, the call has returned and every worker
\* has run parallel_sort_mwms_pu to its end.
C18_TeamFinishes ==
    (n >= 2 /\ num_threads >= 1 /\ ~ENABLED Next) =>
        /\ Returned
        /\ \A w \in Workers : pc[w] = "done"

\* worker v has yet to read the sort buffers: the splitter search and the
\* merge both read sd->sorting_places[s] of every s
ReadsSortBuffers(v) == pc[v] \in {"split", "exact_end", "exact_begin", "merge"}

\* C19: under the copy-to-temporary strategy, while a worker has its
\* splitter search or its merge before it every sort buffer is live, and a
\* buffer that is no longer live finds every worker past split and merge.
C19_NoEarlyRelease ==
    (n >= 2 /\ ~COPY_LAST /\ pc_main \in {"parallel", "returned", "aborted"}) =>
        /\ \A v \in Workers :
              ReadsSortBuffers(v) => \A s \in Workers : temp_state[s] = "live"
        /\ \A w \in Workers :
              temp_state[w] \in {"released", "invalid_release"} =>
                  \A v \in Workers : pc[v] \in {"writeback", "done"}

\* copy-to-temporary: a worker has released the sort buffer that another
\* worker's merge has read a slice of
C19_Witness ==
    /\ ~COPY_LAST
    /\ pc_main = "parallel"
    /\ \E w \in Workers : \E v \in Workers \ {w} :
          /\ temp_state[w] = "released"
          /\ pc[v] = "writeback"
          /\ pieces[v][w].end > pieces[v][w].begin

\* C20: in sampling mode every sample a worker has taken was read at an
\* index of the source inside the worker's own chunk, and was stored in the
\* worker's own slot range of the sample buffer.
C20_SamplesInOwnChunk ==
    (n >= 2 /\ mwmsa = "MWMSA_SAMPLING" /\ pc_main = "parallel") =>
        \A w \in Workers :
            pc[w] = "barrier177" =>
                /\ \A k \in 0 .. (NumSamples - 1) :
                      /\ starts[w] <= SampleIndices(w)[k]
                      /\ SampleIndices(w)[k] < starts[w + 1]
                /\ SampleReads(w) \subseteq rd[w]
                /\ SampleWrites(w) = { <<"samples", w>> }
====
